---------------------------- MODULE Spec2Model ----------------------------
(***************************************************************************)
(* A model of the eodhistoricaldata client library (src/src/lib.rs):       *)
(* the connector, its three query operations, the shared request routine,  *)
(* the typed deserialization of the JSON bodies and the error conversions. *)
(*                                                                         *)
(* JSON numbers: an integer literal n is JInt(n); a literal with a         *)
(* fraction is JFloat(h), h counting hundredths.  A deserialized f64 is    *)
(* kept as its count of hundredths, so 1 and 1.00 give the same f64.       *)
(* Model integers are 32-bit, so an integer literal is always within the   *)
(* range of i32; u64 and usize only reject negative literals.              *)
(***************************************************************************)
EXTENDS Integers, Sequences, FiniteSets, TLC

----------------------------------------------------------------------------
(* Bounds of the model *)

\* concurrent call slots of SpecConc
MaxCalls == 2
\* connectors constructed in SpecConc
MaxConns == 2
\* longest JSON array the upstream sends (over the core element set)
MaxElems == 2

----------------------------------------------------------------------------
(* Inputs *)

Tokens == {"TOKEN_A", "TOKEN_B"}
Tickers == {"AAPL.US", "MSFT.DE"}
\* NaiveDate values: a year below 1000, a usual one, and one past 9999
Dates ==
  { [y |-> 5, m |-> 3, d |-> 9],
    [y |-> 2020, m |-> 1, d |-> 31],
    [y |-> 10000, m |-> 12, d |-> 1] }
NoDate == [y |-> 0, m |-> 0, d |-> 0]
Ops == {"get_latest_quote", "get_quote_history", "get_dividend_history"}

----------------------------------------------------------------------------
(* chrono: NaiveDate::format("%Y-%m-%d") *)

DigitStr(n) ==
  CASE n = 0 -> "0" [] n = 1 -> "1" [] n = 2 -> "2" [] n = 3 -> "3"
    [] n = 4 -> "4" [] n = 5 -> "5" [] n = 6 -> "6" [] n = 7 -> "7"
    [] n = 8 -> "8" [] n = 9 -> "9"

RECURSIVE Decimal(_)
Decimal(n) ==
  IF n < 10 THEN DigitStr(n) ELSE Decimal(n \div 10) \o DigitStr(n % 10)

RECURSIVE ZeroPad(_, _)
ZeroPad(s, w) == IF Len(s) >= w THEN s ELSE ZeroPad("0" \o s, w)

\* %Y: four digits, zero padded; a year outside 0..9999 carries its sign
FormatYear(y) ==
  IF y >= 0 /\ y <= 9999 THEN ZeroPad(Decimal(y), 4)
  ELSE IF y < 0 THEN "-" \o ZeroPad(Decimal(-y), 4)
  ELSE "+" \o ZeroPad(Decimal(y), 4)

FormatDate(dt) ==
  FormatYear(dt.y) \o "-" \o ZeroPad(Decimal(dt.m), 2)
                   \o "-" \o ZeroPad(Decimal(dt.d), 2)

----------------------------------------------------------------------------
(* The connector and the request URLs *)

EodHistConnector_new(token) ==
  [url |-> "https://eodhistoricaldata.com/api", api_token |-> token]

UrlLatestQuote(self, ticker) ==
  self.url \o "/real-time/" \o ticker \o "?api_token=" \o self.api_token
           \o "&fmt=json"

\* faulty variant: from and to exchanged
UrlQuoteHistorySwapped(self, ticker, start, end) ==
  self.url \o "/eod/" \o ticker \o "?from=" \o FormatDate(end)
           \o "&to=" \o FormatDate(start)
           \o "&api_token=" \o self.api_token \o "&period=d&fmt=json"

UrlQuoteHistory(self, ticker, start, end) ==
  self.url \o "/eod/" \o ticker \o "?from=" \o FormatDate(start)
           \o "&to=" \o FormatDate(end)
           \o "&api_token=" \o self.api_token \o "&period=d&fmt=json"

UrlDividendHistory(self, ticker, start) ==
  self.url \o "/div/" \o ticker \o "?from=" \o FormatDate(start)
           \o "&api_token=" \o self.api_token \o "&fmt=json"

BuildUrl(self, op, ticker, start, end) ==
  CASE op = "get_latest_quote" -> UrlLatestQuote(self, ticker)
    [] op = "get_quote_history" -> UrlQuoteHistory(self, ticker, start, end)
    [] op = "get_dividend_history" -> UrlDividendHistory(self, ticker, start)

----------------------------------------------------------------------------
(* serde_json::Value *)

JNull == [t |-> "null"]
JInt(n) == [t |-> "int", i |-> n]
JFloat(h) == [t |-> "float", h |-> h]
JStr(s) == [t |-> "str", s |-> s]
JArr(e) == [t |-> "arr", e |-> e]
JObj(f) == [t |-> "obj", f |-> f]

Without(f, name) == [k \in (DOMAIN f) \ {name} |-> f[k]]
With(f, name, v) ==
  [k \in (DOMAIN f) \cup {name} |-> IF k = name THEN v ELSE f[k]]

----------------------------------------------------------------------------
(* Deserialization of one value: Ok(v) or Err *)

Ok(v) == [ok |-> TRUE, v |-> v]
Err == [ok |-> FALSE]

None == [some |-> FALSE]
Some(v) == [some |-> TRUE, v |-> v]

DeString(j) == IF j.t = "str" THEN Ok(j.s) ELSE Err
DeF64(j) ==
  IF j.t = "int" THEN Ok(100 * j.i)
  ELSE IF j.t = "float" THEN Ok(j.h) ELSE Err
\* u64 and usize
DeUnsigned(j) == IF j.t = "int" /\ j.i >= 0 THEN Ok(j.i) ELSE Err
DeI32(j) == IF j.t = "int" THEN Ok(j.i) ELSE Err

\* Option<T>: null, or a field that is absent, is None
DeOptF64(j) ==
  IF j.t \in {"null", "absent"} THEN Ok(None)
  ELSE IF DeF64(j).ok THEN Ok(Some(DeF64(j).v)) ELSE Err
DeOptUnsigned(j) ==
  IF j.t \in {"null", "absent"} THEN Ok(None)
  ELSE IF DeUnsigned(j).ok THEN Ok(Some(DeUnsigned(j).v)) ELSE Err
DeOptString(j) ==
  IF j.t \in {"null", "absent"} THEN Ok(None)
  ELSE IF DeString(j).ok THEN Ok(Some(DeString(j).v)) ELSE Err

\* a struct field read from a JSON object (by name) or array (by position):
\* the value, or Absent; an absent field of a type other than Option is an
\* error (missing field), as DeString, DeF64, DeUnsigned and DeI32 give
Absent == [t |-> "absent"]
FieldOf(j, name, pos) ==
  IF j.t = "obj"
  THEN IF name \in DOMAIN j.f THEN j.f[name] ELSE Absent
  ELSE IF pos <= Len(j.e) THEN j.e[pos] ELSE Absent

\* a derived struct is read from an object (unknown keys ignored), or from
\* an array that holds exactly its fields in declaration order
StructShape(j, nfields) ==
  j.t = "obj" \/ (j.t = "arr" /\ Len(j.e) = nfields)

DeRealTimeQuote(j) ==
  IF ~StructShape(j, 11) THEN Err
  ELSE LET code == DeString(FieldOf(j, "code", 1))
           timestamp == DeUnsigned(FieldOf(j, "timestamp", 2))
           gmtoffset == DeI32(FieldOf(j, "gmtoffset", 3))
           open == DeF64(FieldOf(j, "open", 4))
           high == DeF64(FieldOf(j, "high", 5))
           low == DeF64(FieldOf(j, "low", 6))
           close == DeF64(FieldOf(j, "close", 7))
           volume == DeUnsigned(FieldOf(j, "volume", 8))
           previous_close == DeF64(FieldOf(j, "previousClose", 9))
           change == DeF64(FieldOf(j, "change", 10))
           change_p == DeF64(FieldOf(j, "change_p", 11))
       IN IF /\ code.ok /\ timestamp.ok /\ gmtoffset.ok /\ open.ok
             /\ high.ok /\ low.ok /\ close.ok /\ volume.ok
             /\ previous_close.ok /\ change.ok /\ change_p.ok
          THEN Ok([code |-> code.v, timestamp |-> timestamp.v,
                   gmtoffset |-> gmtoffset.v, open |-> open.v,
                   high |-> high.v, low |-> low.v, close |-> close.v,
                   volume |-> volume.v,
                   previous_close |-> previous_close.v,
                   change |-> change.v, change_p |-> change_p.v])
          ELSE Err

\* faulty variant: the schema with every field required
DeHistoricQuoteStrict(j) ==
  IF ~StructShape(j, 7) THEN Err
  ELSE LET date == DeString(FieldOf(j, "date", 1))
           open == DeF64(FieldOf(j, "open", 2))
           high == DeF64(FieldOf(j, "high", 3))
           low == DeF64(FieldOf(j, "low", 4))
           close == DeF64(FieldOf(j, "close", 5))
           adjusted_close == DeF64(FieldOf(j, "adjusted_close", 6))
           volume == DeUnsigned(FieldOf(j, "volume", 7))
       IN IF /\ date.ok /\ open.ok /\ high.ok /\ low.ok /\ close.ok
             /\ adjusted_close.ok /\ volume.ok
          THEN Ok([date |-> date.v, open |-> Some(open.v),
                   high |-> Some(high.v), low |-> Some(low.v),
                   close |-> Some(close.v),
                   adjusted_close |-> adjusted_close.v,
                   volume |-> Some(volume.v)])
          ELSE Err

DeHistoricQuote(j) ==
  IF ~StructShape(j, 7) THEN Err
  ELSE LET date == DeString(FieldOf(j, "date", 1))
           open == DeOptF64(FieldOf(j, "open", 2))
           high == DeOptF64(FieldOf(j, "high", 3))
           low == DeOptF64(FieldOf(j, "low", 4))
           close == DeOptF64(FieldOf(j, "close", 5))
           adjusted_close == DeF64(FieldOf(j, "adjusted_close", 6))
           volume == DeOptUnsigned(FieldOf(j, "volume", 7))
       IN IF /\ date.ok /\ open.ok /\ high.ok /\ low.ok /\ close.ok
             /\ adjusted_close.ok /\ volume.ok
          THEN Ok([date |-> date.v, open |-> open.v, high |-> high.v,
                   low |-> low.v, close |-> close.v,
                   adjusted_close |-> adjusted_close.v,
                   volume |-> volume.v])
          ELSE Err

\* rename_all = "camelCase"
DeDividend(j) ==
  IF ~StructShape(j, 8) THEN Err
  ELSE LET currency == DeString(FieldOf(j, "currency", 1))
           date == DeString(FieldOf(j, "date", 2))
           declaration_date == DeOptString(FieldOf(j, "declarationDate", 3))
           payment_date == DeString(FieldOf(j, "paymentDate", 4))
           period == DeString(FieldOf(j, "period", 5))
           record_date == DeString(FieldOf(j, "recordDate", 6))
           unadjusted_value == DeF64(FieldOf(j, "unadjustedValue", 7))
           value == DeF64(FieldOf(j, "value", 8))
       IN IF /\ currency.ok /\ date.ok /\ declaration_date.ok
             /\ payment_date.ok /\ period.ok /\ record_date.ok
             /\ unadjusted_value.ok /\ value.ok
          THEN Ok([currency |-> currency.v, date |-> date.v,
                   declaration_date |-> declaration_date.v,
                   payment_date |-> payment_date.v, period |-> period.v,
                   record_date |-> record_date.v,
                   unadjusted_value |-> unadjusted_value.v,
                   value |-> value.v])
          ELSE Err

----------------------------------------------------------------------------
(* What the upstream can send *)

SeqsUpTo(S, n) == UNION {[1..k -> S] : k \in 0..n}

RtqFields(code) ==
  [code |-> JStr(code), timestamp |-> JInt(1604347200),
   gmtoffset |-> JInt(0), open |-> JFloat(10911), high |-> JFloat(11068),
   low |-> JFloat(10732), close |-> JFloat(10877),
   volume |-> JInt(122866899), previousClose |-> JFloat(10886),
   change |-> JFloat(-9), change_p |-> JFloat(-8)]

\* well-formed real-time quote objects: every field present and well typed
RtqGood ==
  {JObj(RtqFields(c)) : c \in Tickers \cup {"TSLA.US"}}
    \cup {JObj(With(RtqFields("AAPL.US"), "open", JInt(109))),
          JObj(With(RtqFields("MSFT.DE"), "currency", JStr("EUR")))}

\* valid JSON that is no RealTimeQuote
RtqBad ==
  {JObj(Without(RtqFields("AAPL.US"), "previousClose")),
   JObj(With(Without(RtqFields("AAPL.US"), "previousClose"),
             "previous_close", JFloat(10886))),
   JObj(With(RtqFields("AAPL.US"), "volume", JInt(-1))),
   JObj(With(RtqFields("AAPL.US"), "timestamp", JStr("NA"))),
   JObj(With(RtqFields("AAPL.US"), "code", JNull))}

HqFields(date) ==
  [date |-> JStr(date), open |-> JFloat(7406), high |-> JFloat(7515),
   low |-> JFloat(7380), close |-> JInt(75), adjusted_close |-> JFloat(7357),
   volume |-> JInt(135480400)]

HqOptional == {"open", "high", "low", "close", "volume"}

\* elements that arrive in arrays of every length up to MaxElems
HqCore ==
  {JObj(HqFields("2020-01-02")),
   JObj(HqFields("2020-01-03")),
   JObj(With(Without(Without(HqFields("2020-01-06"), "open"), "volume"),
             "close", JNull)),
   JObj(Without(HqFields("2020-01-07"), "adjusted_close")),
   JObj(Without(HqFields("2020-01-08"), "date")),
   JObj(With(HqFields("2020-01-09"), "open", JStr("NA")))}

\* elements that arrive alone or after one full element
HqSingles ==
  {JObj(Without(HqFields("2020-01-10"), k)) : k \in HqOptional}
    \cup {JObj(With(HqFields("2020-01-13"), k, JNull)) : k \in HqOptional}
    \cup {JObj(With(HqFields("2020-01-14"), "adjusted_close", JNull)),
          JObj(With(HqFields("2020-01-15"), "date", JInt(20200115))),
          JObj(With(HqFields("2020-01-16"), "volume", JFloat(150))),
          JArr(<<JStr("2020-01-17"), JFloat(7406), JNull, JFloat(7380),
                 JFloat(7509), JFloat(7357), JInt(1)>>)}

HqArrays ==
  {JArr(e) : e \in SeqsUpTo(HqCore, MaxElems)}
    \cup {JArr(<<x>>) : x \in HqSingles}
    \cup {JArr(<<JObj(HqFields("2020-01-02")), x>>) : x \in HqSingles}

DivFields ==
  [currency |-> JStr("USD"), date |-> JStr("2020-02-07"),
   declarationDate |-> JStr("2020-01-28"),
   paymentDate |-> JStr("2020-02-13"), period |-> JStr("Quarterly"),
   recordDate |-> JStr("2020-02-10"), unadjustedValue |-> JFloat(77),
   value |-> JFloat(19)]

DivCore ==
  {JObj(DivFields),
   JObj(Without(DivFields, "declarationDate")),
   JObj(With(DivFields, "declarationDate", JNull)),
   JObj(With(Without(DivFields, "paymentDate"), "payment_date",
             JStr("2020-02-13")))}

DivArrays == {JArr(e) : e \in SeqsUpTo(DivCore, MaxElems) \ {<<>>}}

OtherValues ==
  {JNull, JInt(0), JStr("Unauthenticated"),
   JObj([error |-> JStr("Unauthenticated")])}

JsonValues == RtqGood \cup RtqBad \cup HqArrays \cup DivArrays \cup OtherValues

\* a body: the text of a JSON value, or a text that is no JSON (empty,
\* malformed, the text of `json` cut short), or a stream that breaks off
NoBody == [text |-> "none", json |-> JNull]
JsonBody(v) == [text |-> "json", json |-> v]
NotJsonBodies ==
  {[text |-> "empty", json |-> JNull],
   [text |-> "malformed", json |-> JNull],
   [text |-> "truncated", json |-> JArr(<<JObj(HqFields("2020-01-02"))>>)],
   [text |-> "truncated", json |-> JObj(RtqFields("AAPL.US"))],
   [text |-> "aborted", json |-> JNull]}
Bodies == {JsonBody(v) : v \in JsonValues} \cup NotJsonBodies

Statuses == {200, 201, 204, 401, 404, 500}

NoResp == [kind |-> "none", status |-> 0, body |-> NoBody]
HttpResponse(status, body) == [kind |-> "http", status |-> status, body |-> body]
\* no response: the GET fails in the transport
TransportFailure(why) == [kind |-> why, status |-> 0, body |-> NoBody]
TransportFailures ==
  {TransportFailure(w) : w \in {"dns", "refused", "timeout"}}
Responses ==
  {HttpResponse(s, b) : s \in Statuses, b \in Bodies} \cup TransportFailures

----------------------------------------------------------------------------
(* Outcomes: Result<T, EodHistDataError> *)

NoVal == [ty |-> "none"]
NoOut == [kind |-> "none", status |-> 0, val |-> NoVal]
OkOut(val) == [kind |-> "Ok", status |-> 0, val |-> val]
FetchFailed(status) == [kind |-> "FetchFailed", status |-> status, val |-> NoVal]
DeserializeFailed == [kind |-> "DeserializeFailed", status |-> 0, val |-> NoVal]
ConnectionFailed == [kind |-> "ConnectionFailed", status |-> 0, val |-> NoVal]

\* the `?` conversions the enum derives with #[from]
FromReqwestError == DeserializeFailed
FromSerdeJsonError == ConnectionFailed

\* faulty variant: every 2xx status taken as success
StatusIsSuccess(status) == status \in 200..299
\* StatusCode::OK
StatusIsOk(status) == status = 200

\* faulty variant: a body that is no JSON is read as an empty array
RespJsonLenient(body) ==
  IF body.text = "json" THEN Ok(body.json) ELSE Ok(JArr(<<>>))
\* resp.json(): the body's JSON value, or a reqwest error
RespJson(body) == IF body.text = "json" THEN Ok(body.json) ELSE Err

\* faulty variant: the requested ticker is stamped on the quote
LatestQuoteForceTicker(ticker, value) ==
  LET q == DeRealTimeQuote(value)
  IN IF q.ok
     THEN OkOut([ty |-> "RealTimeQuote",
                 quote |-> [q.v EXCEPT !.code = ticker]])
     ELSE FromSerdeJsonError
\* what each query does with the value send_request returned
LatestQuoteTail(ticker, value) ==
  LET q == DeRealTimeQuote(value)
  IN IF q.ok THEN OkOut([ty |-> "RealTimeQuote", quote |-> q.v])
     ELSE FromSerdeJsonError

\* faulty variant: the records are returned in reverse order
DeVecHistoricQuoteReversed(value) ==
  LET r == IF value.t = "arr"
                /\ \A k \in 1..Len(value.e) : DeHistoricQuote(value.e[k]).ok
           THEN Ok([k \in 1..Len(value.e) |-> DeHistoricQuote(value.e[k]).v])
           ELSE Err
  IN IF r.ok
     THEN Ok([k \in 1..Len(r.v) |-> r.v[Len(r.v) + 1 - k]])
     ELSE Err
\* serde_json::from_value::<Vec<HistoricQuote>>: an array whose every
\* element deserializes, in the array's order
DeVecHistoricQuote(value) ==
  IF value.t # "arr" THEN Err
  ELSE IF \A k \in 1..Len(value.e) : DeHistoricQuote(value.e[k]).ok
       THEN Ok([k \in 1..Len(value.e) |-> DeHistoricQuote(value.e[k]).v])
       ELSE Err
\* serde_json::from_value::<Vec<Dividend>>
DeVecDividend(value) ==
  IF value.t # "arr" THEN Err
  ELSE IF \A k \in 1..Len(value.e) : DeDividend(value.e[k]).ok
       THEN Ok([k \in 1..Len(value.e) |-> DeDividend(value.e[k]).v])
       ELSE Err

QuoteHistoryTail(value) ==
  LET q == DeVecHistoricQuote(value)
  IN IF q.ok THEN OkOut([ty |-> "VecHistoricQuote", items |-> q.v])
     ELSE FromSerdeJsonError
DividendHistoryTail(value) ==
  LET q == DeVecDividend(value)
  IN IF q.ok THEN OkOut([ty |-> "VecDividend", items |-> q.v])
     ELSE FromSerdeJsonError

QueryTail(op, ticker, value) ==
  CASE op = "get_latest_quote" -> LatestQuoteTail(ticker, value)
    [] op = "get_quote_history" -> QuoteHistoryTail(value)
    [] op = "get_dividend_history" -> DividendHistoryTail(value)

----------------------------------------------------------------------------
(* State *)

VARIABLES
  conn,   \* the connectors constructed so far, in order of construction
  calls   \* per call slot: the query call running in it

vars == <<conn, calls>>

\* pc: idle (no call), get (awaiting reqwest::get), json (awaiting
\* resp.json()), done (the call has returned `out`)
IdleCall ==
  [pc |-> "idle", conn |-> 0, op |-> "", ticker |-> "", start |-> NoDate,
   end |-> NoDate, url |-> "", gets |-> 0, resp |-> NoResp, out |-> NoOut]

Init ==
  /\ conn = <<>>
  /\ calls = [i \in 1..MaxCalls |-> IdleCall]

\* EodHistConnector::new
New(token) ==
  /\ conn' = Append(conn, EodHistConnector_new(token))
  /\ UNCHANGED calls

\* a query is called: it formats its URL and send_request issues the GET
Invoke(i, c, op, ticker, start, end) ==
  /\ calls[i].pc = "idle"
  /\ c \in DOMAIN conn
  /\ calls' = [calls EXCEPT ![i] =
       [pc |-> "get", conn |-> c, op |-> op, ticker |-> ticker,
        start |-> start, end |-> end,
        url |-> BuildUrl(conn[c], op, ticker, start, end),
        gets |-> 1, resp |-> NoResp, out |-> NoOut]]
  /\ UNCHANGED conn

\* faulty variant: the GET is issued again after a failure
AfterGetRetry(call, r) ==
  IF r.kind = "http" /\ StatusIsOk(r.status)
  THEN [call EXCEPT !.pc = "json", !.resp = r]
  ELSE IF call.gets < 2
       THEN [call EXCEPT !.gets = @ + 1]
       ELSE [call EXCEPT !.pc = "done", !.resp = r, !.out = FromReqwestError]
\* send_request after reqwest::get(url).await
AfterGet(call, r) ==
  IF r.kind # "http"
  THEN [call EXCEPT !.pc = "done", !.resp = r, !.out = FromReqwestError]
  ELSE IF StatusIsOk(r.status)
       THEN [call EXCEPT !.pc = "json", !.resp = r]
       ELSE [call EXCEPT !.pc = "done", !.resp = r,
                         !.out = FetchFailed(r.status)]

\* the GET of call i completes with r
Respond(i, r) ==
  /\ calls[i].pc = "get"
  /\ calls' = [calls EXCEPT ![i] = AfterGet(@, r)]
  /\ UNCHANGED conn

\* faulty variant: one response buffer shared by the calls, read by
\* whichever call resumes
SharedResponse(i) ==
  calls[CHOOSE j \in 1..MaxCalls :
          /\ calls[j].pc = "json"
          /\ \A k \in 1..MaxCalls : calls[k].pc = "json" => j <= k].resp
\* the response the call holds
AwaitedResponse(i) == calls[i].resp

\* send_request after resp.json().await, then the query's from_value
AfterJson(call, resp) ==
  LET parsed == RespJson(resp.body)
  IN [call EXCEPT !.pc = "done",
                  !.out = IF parsed.ok
                          THEN QueryTail(call.op, call.ticker, parsed.v)
                          ELSE FromReqwestError]

\* the body of call i's response is read
ReadJson(i) ==
  /\ calls[i].pc = "json"
  /\ calls' = [calls EXCEPT ![i] = AfterJson(@, AwaitedResponse(i))]
  /\ UNCHANGED conn

\* the caller takes the result; the slot is free for the next call
Return(i) ==
  /\ calls[i].pc = "done"
  /\ calls' = [calls EXCEPT ![i] = IdleCall]
  /\ UNCHANGED conn

StartsOf(op) == IF op = "get_latest_quote" THEN {NoDate} ELSE Dates
EndsOf(op) == IF op = "get_quote_history" THEN Dates ELSE {NoDate}

\* one connector, one call at a time, every input and every response
Next ==
  \/ \E t \in Tokens : Len(conn) < 1 /\ New(t)
  \/ \E op \in Ops, tk \in Tickers :
       \E s \in StartsOf(op), e \in EndsOf(op) : Invoke(1, 1, op, tk, s, e)
  \/ \E r \in Responses : Respond(1, r)
  \/ ReadJson(1)
  \/ Return(1)

Spec == Init /\ [][Next]_vars

\* concurrent calls on several connectors
ConcDate == [y |-> 2020, m |-> 1, d |-> 31]
ConcResponses ==
  {HttpResponse(200, JsonBody(JObj(RtqFields("AAPL.US")))),
   HttpResponse(200, JsonBody(JArr(<<JObj(HqFields("2020-01-02"))>>))),
   HttpResponse(404, JsonBody(JNull)),
   TransportFailure("timeout")}

NextConc ==
  \/ \E t \in Tokens : Len(conn) < MaxConns /\ New(t)
  \/ \E i \in 1..MaxCalls, c \in DOMAIN conn :
       \/ Invoke(i, c, "get_latest_quote", "AAPL.US", NoDate, NoDate)
       \/ Invoke(i, c, "get_quote_history", "AAPL.US", ConcDate, ConcDate)
  \/ \E i \in 1..MaxCalls, r \in ConcResponses : Respond(i, r)
  \/ \E i \in 1..MaxCalls : ReadJson(i)
  \/ \E i \in 1..MaxCalls : Return(i)

SpecConc == Init /\ [][NextConc]_vars

----------------------------------------------------------------------------
(* Vocabulary of the properties *)

CallIds == 1..MaxCalls
Done(i) == calls[i].pc = "done"
Got200(i) == calls[i].resp.kind = "http" /\ calls[i].resp.status = 200
JsonOf(i) == calls[i].resp.body.json
IsError(out) ==
  out.kind \in {"FetchFailed", "DeserializeFailed", "ConnectionFailed"}

\* the year in decimal, zero padded to four digits
PaddedYear(y) ==
  IF y < 10 THEN "000" \o Decimal(y)
  ELSE IF y < 100 THEN "00" \o Decimal(y)
  ELSE IF y < 1000 THEN "0" \o Decimal(y) ELSE Decimal(y)
PaddedTwo(n) == IF n < 10 THEN "0" \o Decimal(n) ELSE Decimal(n)
IsoDate(dt) ==
  PaddedYear(dt.y) \o "-" \o PaddedTwo(dt.m) \o "-" \o PaddedTwo(dt.d)

\* the documented URL templates
DocumentedUrl(token, op, ticker, start, end) ==
  CASE op = "get_latest_quote" ->
         "https://eodhistoricaldata.com/api/real-time/" \o ticker
           \o "?api_token=" \o token \o "&fmt=json"
    [] op = "get_quote_history" ->
         "https://eodhistoricaldata.com/api/eod/" \o ticker
           \o "?from=" \o IsoDate(start) \o "&to=" \o IsoDate(end)
           \o "&api_token=" \o token \o "&period=d&fmt=json"
    [] op = "get_dividend_history" ->
         "https://eodhistoricaldata.com/api/div/" \o ticker
           \o "?from=" \o IsoDate(start) \o "&api_token=" \o token
           \o "&fmt=json"

FourDigitYear(dt) == dt.y >= 0 /\ dt.y <= 9999

IsNumber(v) == v.t \in {"int", "float"}
Hundredths(v) == IF v.t = "int" THEN 100 * v.i ELSE v.h
Gap(obj, k) == k \notin DOMAIN obj.f \/ obj.f[k].t = "null"
HasGap(obj) == \E k \in HqOptional : Gap(obj, k)

\* a quote object: date and adjusted_close present, each other field
\* missing, null or a number (volume a non-negative integer)
WellFormedQuoteObject(j) ==
  /\ j.t = "obj"
  /\ "date" \in DOMAIN j.f /\ j.f["date"].t = "str"
  /\ "adjusted_close" \in DOMAIN j.f /\ IsNumber(j.f["adjusted_close"])
  /\ \A k \in HqOptional \ {"volume"} : Gap(j, k) \/ IsNumber(j.f[k])
  /\ \/ Gap(j, "volume")
     \/ (j.f["volume"].t = "int" /\ j.f["volume"].i >= 0)

\* the record carries what the object carries, a gap as an absent field
BuiltFrom(rec, j) ==
  /\ rec.date = j.f["date"].s
  /\ rec.adjusted_close = Hundredths(j.f["adjusted_close"])
  /\ \A k \in HqOptional \ {"volume"} :
       rec[k] = IF Gap(j, k) THEN None ELSE Some(Hundredths(j.f[k]))
  /\ rec.volume = IF Gap(j, "volume") THEN None ELSE Some(j.f["volume"].i)

\* whether a JSON value has the shape the query deserializes
MatchesShape(op, v) ==
  CASE op = "get_latest_quote" -> DeRealTimeQuote(v).ok
    [] op = "get_quote_history" -> DeVecHistoricQuote(v).ok
    [] op = "get_dividend_history" -> DeVecDividend(v).ok

----------------------------------------------------------------------------
(* C1 *)

\* C1: in each of the three queries, a response whose status is not 200
\* (other 2xx included) ends the call with FetchFailed carrying exactly that
\* status, whatever the body holds; the body is never read.
C1_Non200IsFetchFailed ==
  \A i \in CallIds :
    (calls[i].resp.kind = "http" /\ calls[i].resp.status # 200)
      => /\ Done(i)
         /\ calls[i].out = FetchFailed(calls[i].resp.status)

\* a 201 whose body would have deserialized, answered with FetchFailed(201)
C1_Witness ==
  \E i \in CallIds :
    /\ Done(i) /\ calls[i].resp.kind = "http" /\ calls[i].resp.status = 201
    /\ calls[i].resp.body.text = "json"
    /\ MatchesShape(calls[i].op, JsonOf(i))
    /\ calls[i].out.kind = "FetchFailed" /\ calls[i].out.status = 201

----------------------------------------------------------------------------
(* C2 *)

\* C2: in each of the three queries, a GET that fails in the transport (no
\* response received) ends the call with ConnectionFailed.
C2_TransportIsConnectionFailed ==
  \A i \in CallIds :
    (Done(i) /\ calls[i].resp.kind \in {"dns", "refused", "timeout"})
      => calls[i].out = ConnectionFailed

----------------------------------------------------------------------------
(* C3 *)

\* C3: in each of the three queries, a 200 response whose body is valid
\* JSON of the wrong shape ends the call with DeserializeFailed.
C3_WrongShapeIsDeserializeFailed ==
  \A i \in CallIds :
    (/\ Done(i) /\ Got200(i) /\ calls[i].resp.body.text = "json"
     /\ ~MatchesShape(calls[i].op, JsonOf(i)))
      => calls[i].out = DeserializeFailed

----------------------------------------------------------------------------
(* C4 *)

\* C4: in each of the three queries, a 200 response whose body is not valid
\* JSON (empty, malformed, truncated) ends the call with DeserializeFailed,
\* never with a success value.
C4_NotJsonIsDeserializeFailed ==
  \A i \in CallIds :
    (/\ Done(i) /\ Got200(i)
     /\ calls[i].resp.body.text \in {"empty", "malformed", "truncated"})
      => calls[i].out = DeserializeFailed

\* get_quote_history answered 200 with the cut text of a quote array
C4_Witness ==
  \E i \in CallIds :
    /\ Done(i) /\ Got200(i) /\ calls[i].op = "get_quote_history"
    /\ calls[i].resp.body.text = "truncated"
    /\ calls[i].out.kind = "DeserializeFailed"

----------------------------------------------------------------------------
(* C5 *)

\* C5: get_quote_history answered 200 with a JSON array of n well-formed
\* quote objects (n >= 0) succeeds with exactly n records, the i-th built
\* from the i-th element, in the array's order; the empty array gives an
\* empty sequence, not an error.
C5_HistoryKeepsArray ==
  \A i \in CallIds :
    (/\ Done(i) /\ Got200(i) /\ calls[i].op = "get_quote_history"
     /\ calls[i].resp.body.text = "json" /\ JsonOf(i).t = "arr"
     /\ \A k \in 1..Len(JsonOf(i).e) : WellFormedQuoteObject(JsonOf(i).e[k]))
      => /\ calls[i].out.kind = "Ok"
         /\ calls[i].out.val.ty = "VecHistoricQuote"
         /\ Len(calls[i].out.val.items) = Len(JsonOf(i).e)
         /\ \A k \in 1..Len(JsonOf(i).e) :
              BuiltFrom(calls[i].out.val.items[k], JsonOf(i).e[k])

\* two quotes sent newest first come back newest first
C5_Witness ==
  \E i \in CallIds :
    /\ Done(i) /\ Got200(i) /\ calls[i].op = "get_quote_history"
    /\ calls[i].resp.body.text = "json"
    /\ JsonOf(i) = JArr(<<JObj(HqFields("2020-01-03")),
                          JObj(HqFields("2020-01-02"))>>)
    /\ calls[i].out.kind = "Ok"
    /\ calls[i].out.val.items[1].date = "2020-01-03"
    /\ calls[i].out.val.items[2].date = "2020-01-02"

\* the empty array gives Ok with no record
C5_WitnessEmpty ==
  \E i \in CallIds :
    /\ Done(i) /\ Got200(i) /\ calls[i].op = "get_quote_history"
    /\ calls[i].resp.body.text = "json" /\ JsonOf(i) = JArr(<<>>)
    /\ calls[i].out.kind = "Ok" /\ calls[i].out.val.items = <<>>

----------------------------------------------------------------------------
(* C6 *)

\* C6 as claimed: for every token, ticker and dates, the URL a query sends
\* its GET to is its documented template, every date rendered as zero-padded
\* YYYY-MM-DD, start and end passed through unchanged.
C6_UrlIsTemplate ==
  \A i \in CallIds :
    calls[i].pc # "idle"
      => calls[i].url =
           DocumentedUrl(conn[calls[i].conn].api_token, calls[i].op,
                         calls[i].ticker, calls[i].start, calls[i].end)

\* C6 amended: the same for every token and ticker and for every date whose
\* year is within 0..9999 (a later year is rendered with a sign, +10000).
C6_UrlIsTemplateFourDigitYears ==
  \A i \in CallIds :
    (/\ calls[i].pc # "idle"
     /\ FourDigitYear(calls[i].start) /\ FourDigitYear(calls[i].end))
      => calls[i].url =
           DocumentedUrl(conn[calls[i].conn].api_token, calls[i].op,
                         calls[i].ticker, calls[i].start, calls[i].end)

\* a history request from 0005-03-09 to 2020-01-31 on the wire
C6_Witness ==
  \E i \in CallIds :
    /\ calls[i].pc = "get" /\ calls[i].op = "get_quote_history"
    /\ calls[i].start = [y |-> 5, m |-> 3, d |-> 9]
    /\ calls[i].end = [y |-> 2020, m |-> 1, d |-> 31]
    /\ calls[i].ticker = "AAPL.US"
    /\ conn[calls[i].conn].api_token = "TOKEN_A"
    /\ calls[i].url =
         "https://eodhistoricaldata.com/api/eod/AAPL.US?from=0005-03-09&to=2020-01-31&api_token=TOKEN_A&period=d&fmt=json"

----------------------------------------------------------------------------
(* C7 *)

\* the code the upstream put in its quote
SentCode(j) == IF j.t = "obj" THEN j.f["code"].s ELSE j.e[1].s

\* C7 as claimed: a successful get_latest_quote(ticker) returns a quote whose
\* code equals the requested ticker, whatever well-formed quote the upstream
\* sends.
C7_CodeIsTicker ==
  \A i \in CallIds :
    (Done(i) /\ calls[i].op = "get_latest_quote" /\ calls[i].out.kind = "Ok")
      => calls[i].out.val.quote.code = calls[i].ticker

\* C7 amended: a successful get_latest_quote(ticker) returns a quote whose
\* code equals the code of the quote the upstream sent; it equals the
\* requested ticker exactly when the upstream sent that ticker as the code.
C7_CodeIsUpstreamCode ==
  \A i \in CallIds :
    (Done(i) /\ calls[i].op = "get_latest_quote" /\ calls[i].out.kind = "Ok")
      => /\ calls[i].out.val.quote.code = SentCode(JsonOf(i))
         /\ (calls[i].out.val.quote.code = calls[i].ticker)
              <=> (SentCode(JsonOf(i)) = calls[i].ticker)

\* AAPL.US asked, a well-formed TSLA.US quote sent and returned
C7_Witness ==
  \E i \in CallIds :
    /\ Done(i) /\ calls[i].op = "get_latest_quote"
    /\ calls[i].ticker = "AAPL.US" /\ Got200(i)
    /\ JsonOf(i) = JObj(RtqFields("TSLA.US"))
    /\ calls[i].out.kind = "Ok"
    /\ calls[i].out.val.quote.code = "TSLA.US"

----------------------------------------------------------------------------
(* C8 *)

FailedRequest(r) ==
  \/ r.kind \in {"dns", "refused", "timeout"}
  \/ r.kind = "http" /\ r.status # 200
  \/ r.kind = "http" /\ r.body.text # "json"

\* C8: a call of a query issues exactly one GET and returns exactly one
\* outcome, a success value or one of the three errors; after a failed
\* request no second GET is issued and the failure is returned as an error.
C8_OneGetOneOutcome ==
  \A i \in CallIds :
    /\ calls[i].pc # "idle" => calls[i].gets = 1
    /\ calls[i].pc = "idle" => calls[i].gets = 0
    /\ Done(i) => (calls[i].out.kind = "Ok" \/ IsError(calls[i].out))
    /\ ~Done(i) => calls[i].out = NoOut
    /\ (Done(i) /\ FailedRequest(calls[i].resp)) => IsError(calls[i].out)

\* a call that failed with a 500 has returned an error after its one GET
C8_Witness ==
  \E i \in CallIds :
    /\ Done(i) /\ calls[i].resp.kind = "http" /\ calls[i].resp.status = 500
    /\ calls[i].gets = 1 /\ calls[i].out.kind = "FetchFailed"

----------------------------------------------------------------------------
(* C9 *)

\* what a call returns when it runs alone: send_request and the query's
\* from_value applied to the call's own response
AloneOutcome(op, ticker, r) ==
  IF r.kind # "http" THEN FromReqwestError
  ELSE IF r.status # 200 THEN FetchFailed(r.status)
  ELSE IF r.body.text # "json" THEN FromReqwestError
  ELSE QueryTail(op, ticker, r.body.json)

SameRequest(i, j) ==
  /\ calls[i].pc # "idle" /\ calls[j].pc # "idle"
  /\ conn[calls[i].conn].api_token = conn[calls[j].conn].api_token
  /\ calls[i].op = calls[j].op /\ calls[i].ticker = calls[j].ticker
  /\ calls[i].start = calls[j].start /\ calls[i].end = calls[j].end

C9_Isolated ==
  /\ \A c \in DOMAIN conn : conn[c].url = "https://eodhistoricaldata.com/api"
  /\ \A i \in CallIds :
       /\ calls[i].pc # "idle"
            => calls[i].url =
                 DocumentedUrl(conn[calls[i].conn].api_token, calls[i].op,
                               calls[i].ticker, calls[i].start, calls[i].end)
       /\ Done(i)
            => calls[i].out =
                 AloneOutcome(calls[i].op, calls[i].ticker, calls[i].resp)
  /\ \A i, j \in CallIds :
       SameRequest(i, j)
         => /\ calls[i].url = calls[j].url
            /\ (Done(i) /\ Done(j) /\ calls[i].resp = calls[j].resp)
                 => calls[i].out = calls[j].out

C9_ConfigFrozen ==
  \A c \in DOMAIN conn : c \in DOMAIN conn' /\ conn'[c] = conn[c]

\* C9: under any interleaving of concurrent calls, on one connector and
\* across connectors, a connector's base URL and token never change after
\* construction; each call's URL and outcome are those the call has when run
\* alone, a function of the token, its own arguments and its own response;
\* calls with equal token and arguments send equal URLs.
C9_ConcurrentCallsIndependent ==
  [](C9_Isolated) /\ [][C9_ConfigFrozen]_vars

\* two calls with equal arguments on two connectors of one token, both
\* answered while the other was in flight, one with a quote, one with 404
C9_Witness ==
  /\ Len(conn) = 2 /\ conn[1].api_token = conn[2].api_token
  /\ calls[1].conn = 1 /\ calls[2].conn = 2
  /\ SameRequest(1, 2) /\ Done(1) /\ Done(2)
  /\ calls[1].out.kind = "Ok" /\ calls[2].out.kind = "FetchFailed"

----------------------------------------------------------------------------
(* C10 *)

LacksRequired(j) ==
  j.t = "obj" /\ ("adjusted_close" \notin DOMAIN j.f \/ "date" \notin DOMAIN j.f)

\* C10: get_quote_history answered 200 with a JSON array: an element whose
\* open, high, low, close or volume is missing or null is accepted and
\* returned with that field absent and the other fields as sent; one element
\* lacking adjusted_close or date fails the whole call with an error and no
\* partial sequence.
C10_GapsAcceptedRequiredEnforced ==
  \A i \in CallIds :
    (/\ Done(i) /\ Got200(i) /\ calls[i].op = "get_quote_history"
     /\ calls[i].resp.body.text = "json" /\ JsonOf(i).t = "arr")
      => /\ (\A k \in 1..Len(JsonOf(i).e) :
                WellFormedQuoteObject(JsonOf(i).e[k]))
              => /\ calls[i].out.kind = "Ok"
                 /\ \A k \in 1..Len(JsonOf(i).e) :
                      LET sent == JsonOf(i).e[k]
                          rec == calls[i].out.val.items[k]
                      IN /\ \A f \in HqOptional :
                              Gap(sent, f) <=> rec[f] = None
                         /\ BuiltFrom(rec, sent)
         /\ (\E k \in 1..Len(JsonOf(i).e) : LacksRequired(JsonOf(i).e[k]))
              => /\ IsError(calls[i].out)
                 /\ calls[i].out.val = NoVal

\* a quote without open and volume and with a null close is returned with
\* these three absent
C10_Witness ==
  \E i \in CallIds :
    /\ Done(i) /\ Got200(i) /\ calls[i].op = "get_quote_history"
    /\ calls[i].resp.body.text = "json" /\ JsonOf(i).t = "arr"
    /\ Len(JsonOf(i).e) = 2
    /\ HasGap(JsonOf(i).e[2]) /\ ~HasGap(JsonOf(i).e[1])
    /\ calls[i].out.kind = "Ok"
    /\ calls[i].out.val.items[2].open = None
    /\ calls[i].out.val.items[2].close = None
    /\ calls[i].out.val.items[2].volume = None
    /\ calls[i].out.val.items[2].high = Some(7515)

\* a full quote followed by one without adjusted_close: an error, no record
C10_WitnessRequired ==
  \E i \in CallIds :
    /\ Done(i) /\ Got200(i) /\ calls[i].op = "get_quote_history"
    /\ calls[i].resp.body.text = "json" /\ JsonOf(i).t = "arr"
    /\ Len(JsonOf(i).e) = 2
    /\ WellFormedQuoteObject(JsonOf(i).e[1])
    /\ "adjusted_close" \notin DOMAIN JsonOf(i).e[2].f
    /\ IsError(calls[i].out)

=============================================================================
